---- MODULE Spec2Model ----
(***************************************************************************)
(* Model of the soulkit Tauri command handler (src-tauri/src/lib.rs): the  *)
(* filesystem commands read_file, write_file, delete_file, list_dir,       *)
(* ensure_dir and file_exists, acting on a tree-shaped filesystem.         *)
(*                                                                         *)
(* A path is the sequence of its components below a root directory that    *)
(* always exists; a file holds a sequence of bytes; a text is a sequence   *)
(* of Unicode code points, stored as its UTF-8 encoding.                   *)
(***************************************************************************)
EXTENDS Integers, Sequences, FiniteSets, TLC

\* ------------------------------------------------------------- bounds
MaxDepth == 2      \* longest path, in components
MaxOps == 2        \* commands dispatched in one run of the sequential model

Names == {"a", "b"}                       \* component names
Texts == {<<>>, <<65>>, <<233>>}          \* "", "A" (1 byte in UTF-8), e-acute (2 bytes)
Threads == {1, 2}                         \* worker threads of the concurrent model

Paths == UNION {[1..k -> Names] : k \in 0..MaxDepth}

\* ------------------------------------------------------------- paths
Prefix(p, k) == SubSeq(p, 1, k)
HasParent(p) == Len(p) > 0
Parent(p) == SubSeq(p, 1, Len(p) - 1)
FileName(p) == p[Len(p)]
Ancestors(p) == {Prefix(p, k) : k \in 0..(Len(p) - 1)}
IsUnder(q, p) == Len(q) > Len(p) /\ Prefix(q, Len(p)) = p

\* ------------------------------------------------------------- UTF-8
EncodeChar(cp) ==
    IF cp < 128 THEN <<cp>> ELSE <<192 + (cp \div 64), 128 + (cp % 64)>>

RECURSIVE Utf8Encode(_)
Utf8Encode(text) ==
    IF text = <<>> THEN <<>> ELSE EncodeChar(Head(text)) \o Utf8Encode(Tail(text))

\* [ok, text]: the text a byte sequence decodes to, ok = FALSE when it is not UTF-8
RECURSIVE Utf8Decode(_)
Utf8Decode(bytes) ==
    IF bytes = <<>> THEN [ok |-> TRUE, text |-> <<>>]
    ELSE LET b == Head(bytes) IN
         IF b < 128
         THEN LET r == Utf8Decode(Tail(bytes)) IN
              [ok |-> r.ok, text |-> IF r.ok THEN <<b>> \o r.text ELSE <<>>]
         ELSE IF b >= 194 /\ b <= 223 /\ Len(bytes) >= 2
                 /\ bytes[2] >= 128 /\ bytes[2] <= 191
         THEN LET r == Utf8Decode(Tail(Tail(bytes))) IN
              [ok |-> r.ok,
               text |-> IF r.ok THEN <<(b - 192) * 64 + (bytes[2] - 128)>> \o r.text
                        ELSE <<>>]
         ELSE [ok |-> FALSE, text |-> <<>>]

\* ------------------------------------------------------------- filesystem
NoEntry == [kind |-> "none", data |-> <<>>]
DirEntry == [kind |-> "dir", data |-> <<>>]
FileEntry(bytes) == [kind |-> "file", data |-> bytes]

EmptyFS == [p \in Paths |-> IF p = <<>> THEN DirEntry ELSE NoEntry]

\* every entry sits in a directory
WellFormed(f) ==
    \A p \in Paths : f[p].kind # "none" => \A q \in Ancestors(p) : f[q].kind = "dir"

\* the error of walking to p's parent: "" when every ancestor is a directory
AncestorError(f, p) ==
    LET bad == {k \in 0..(Len(p) - 1) : f[Prefix(p, k)].kind # "dir"} IN
    IF bad = {} THEN ""
    ELSE LET k0 == CHOOSE k \in bad : \A j \in bad : k <= j IN
         IF f[Prefix(p, k0)].kind = "file" THEN "NotADirectory" ELSE "NotFound"

IsDir(f, p) == AncestorError(f, p) = "" /\ f[p].kind = "dir"

\* mkdir(2): [err, fs]
Mkdir(f, p) ==
    IF AncestorError(f, p) # "" THEN [err |-> AncestorError(f, p), fs |-> f]
    ELSE IF f[p].kind # "none" THEN [err |-> "AlreadyExists", fs |-> f]
    ELSE [err |-> "", fs |-> [f EXCEPT ![p] = DirEntry]]

\* std::fs::create_dir_all: [err, fs]
RECURSIVE CreateDirAll(_, _)
CreateDirAll(f, p) ==
    LET first == Mkdir(f, p) IN
    IF first.err = "" THEN first
    ELSE IF first.err # "NotFound"
    THEN IF IsDir(f, p) THEN [err |-> "", fs |-> f] ELSE first
    ELSE IF ~HasParent(p) THEN [err |-> "Other", fs |-> f]
    ELSE LET up == CreateDirAll(f, Parent(p)) IN
         IF up.err # "" THEN up
         ELSE LET again == Mkdir(up.fs, p) IN
              IF again.err = "" THEN again
              ELSE IF IsDir(up.fs, p) THEN [err |-> "", fs |-> up.fs]
              ELSE again

\* variant: the file is opened without truncation
OpenNoTruncate(f, p) ==
    IF ~HasParent(p) THEN [err |-> "IsADirectory", fs |-> f]
    ELSE IF AncestorError(f, p) # "" THEN [err |-> AncestorError(f, p), fs |-> f]
    ELSE IF f[p].kind = "dir" THEN [err |-> "IsADirectory", fs |-> f]
    ELSE IF f[p].kind = "file" THEN [err |-> "", fs |-> f]
    ELSE [err |-> "", fs |-> [f EXCEPT ![p] = FileEntry(<<>>)]]

\* File::create: open for writing, creating or truncating: [err, fs]
OpenTruncate(f, p) ==
    IF ~HasParent(p) THEN [err |-> "IsADirectory", fs |-> f]
    ELSE IF AncestorError(f, p) # "" THEN [err |-> AncestorError(f, p), fs |-> f]
    ELSE IF f[p].kind = "dir" THEN [err |-> "IsADirectory", fs |-> f]
    ELSE [err |-> "", fs |-> [f EXCEPT ![p] = FileEntry(<<>>)]]

\* a write of bytes at offset off of the file open at p (a gap left before
\* off, when the file was truncated meanwhile, reads as zero bytes)
WriteAt(f, p, off, bytes) ==
    LET old == f[p].data
        n == IF Len(old) > off + Len(bytes) THEN Len(old) ELSE off + Len(bytes)
    IN [f EXCEPT ![p] = FileEntry(
           [i \in 1..n |-> IF i > off /\ i <= off + Len(bytes) THEN bytes[i - off]
                           ELSE IF i <= Len(old) THEN old[i] ELSE 0])]

\* variant: every write call reopens the path, creating the file anew when
\* it is gone
PathWrite(f, linked, p, off, bytes) ==
    IF f[p].kind = "dir" \/ AncestorError(f, p) # "" THEN f
    ELSE WriteAt(f, p, off, bytes)

\* a write call on an open file: it reaches the path only while the file is
\* still linked there
HandleWrite(f, linked, p, off, bytes) ==
    IF linked THEN WriteAt(f, p, off, bytes) ELSE f

\* std::fs::write: [err, fs]
FsWrite(f, p, bytes) ==
    LET opened == OpenTruncate(f, p) IN
    IF opened.err # "" THEN opened
    ELSE [err |-> "", fs |-> HandleWrite(opened.fs, TRUE, p, 0, bytes)]

\* variant: the bytes are taken for code points one by one, unvalidated
ReadBytesAsChars(f, p) ==
    IF AncestorError(f, p) # "" THEN [err |-> AncestorError(f, p), text |-> <<>>]
    ELSE IF f[p].kind = "none" THEN [err |-> "NotFound", text |-> <<>>]
    ELSE IF f[p].kind = "dir" THEN [err |-> "IsADirectory", text |-> <<>>]
    ELSE [err |-> "", text |-> f[p].data]

\* std::fs::read_to_string: [err, text]
ReadToString(f, p) ==
    IF AncestorError(f, p) # "" THEN [err |-> AncestorError(f, p), text |-> <<>>]
    ELSE IF f[p].kind = "none" THEN [err |-> "NotFound", text |-> <<>>]
    ELSE IF f[p].kind = "dir" THEN [err |-> "IsADirectory", text |-> <<>>]
    ELSE LET d == Utf8Decode(f[p].data) IN
         IF d.ok THEN [err |-> "", text |-> d.text]
         ELSE [err |-> "InvalidData", text |-> <<>>]

\* variant: whatever is at the path is removed, a directory with all it holds
RemoveAny(f, p) ==
    IF AncestorError(f, p) # "" THEN [err |-> AncestorError(f, p), fs |-> f]
    ELSE IF f[p].kind = "none" THEN [err |-> "NotFound", fs |-> f]
    ELSE IF ~HasParent(p) THEN [err |-> "PermissionDenied", fs |-> f]
    ELSE [err |-> "", fs |-> [q \in Paths |-> IF q = p \/ IsUnder(q, p) THEN NoEntry ELSE f[q]]]

\* std::fs::remove_file (unlink): [err, fs]
RemoveFile(f, p) ==
    IF AncestorError(f, p) # "" THEN [err |-> AncestorError(f, p), fs |-> f]
    ELSE IF f[p].kind = "none" THEN [err |-> "NotFound", fs |-> f]
    ELSE IF f[p].kind = "dir" THEN [err |-> "IsADirectory", fs |-> f]
    ELSE [err |-> "", fs |-> [f EXCEPT ![p] = NoEntry]]

\* Path::exists: metadata(p) succeeds
Exists(f, p) == AncestorError(f, p) = "" /\ f[p].kind # "none"

\* variant: the directory is walked recursively
Descendants(f, p) == {q \in Paths : IsUnder(q, p) /\ f[q].kind # "none"}

\* the entries of directory p, as the paths read_dir yields
Children(f, p) ==
    {q \in Paths : Len(q) = Len(p) + 1 /\ Prefix(q, Len(p)) = p /\ f[q].kind # "none"}

\* std::fs::read_dir: "" or the error
ReadDirError(f, p) ==
    IF AncestorError(f, p) # "" THEN AncestorError(f, p)
    ELSE IF f[p].kind = "none" THEN "NotFound"
    ELSE IF f[p].kind = "file" THEN "NotADirectory"
    ELSE ""

\* the orders in which read_dir may yield the entries (the order is unspecified)
Enumerations(S) ==
    {s \in [1..Cardinality(S) -> S] : \A i, j \in 1..Cardinality(S) : i # j => s[i] # s[j]}

\* ------------------------------------------------------------- results
Ok == [ok |-> TRUE, err |-> "", text |-> <<>>, names |-> <<>>, flag |-> FALSE]
Err(e) == [ok |-> FALSE, err |-> e, text |-> <<>>, names |-> <<>>, flag |-> FALSE]
OkText(t) == [Ok EXCEPT !.text = t]
OkNames(ns) == [Ok EXCEPT !.names = ns]
OkFlag(b) == [Ok EXCEPT !.flag = b]
FromErr(e) == IF e = "" THEN Ok ELSE Err(e)

\* ------------------------------------------------------------- commands
\* each command as a function of the filesystem: [res, fs]

read_file(f, path) ==
    LET r == ReadToString(f, path) IN
    [res |-> IF r.err = "" THEN OkText(r.text) ELSE Err(r.err), fs |-> f]

\* variant: the parent directories are not created
NoParentDirs(f, path) == [err |-> "", fs |-> f]

\* write_file: if let Some(parent) = ... { create_dir_all(parent)? }: [err, fs]
MakeParentDirs(f, path) ==
    IF HasParent(path) THEN CreateDirAll(f, Parent(path)) ELSE [err |-> "", fs |-> f]

write_file(f, path, content) ==
    LET made == MakeParentDirs(f, path)
    IN IF made.err # "" THEN [res |-> Err(made.err), fs |-> made.fs]
       ELSE LET w == FsWrite(made.fs, path, Utf8Encode(content)) IN
            [res |-> FromErr(w.err), fs |-> w.fs]

\* variant: remove_file without the existence check
delete_file_unchecked(f, path) ==
    LET r == RemoveFile(f, path) IN [res |-> FromErr(r.err), fs |-> r.fs]

delete_file(f, path) ==
    IF Exists(f, path)
    THEN LET r == RemoveFile(f, path) IN [res |-> FromErr(r.err), fs |-> r.fs]
    ELSE [res |-> Ok, fs |-> f]

\* variant: read_dir without the existence check
list_dir_unchecked(f, path) ==
    IF ReadDirError(f, path) # "" THEN {[res |-> Err(ReadDirError(f, path)), fs |-> f]}
    ELSE {[res |-> OkNames([i \in 1..Len(e) |-> FileName(e[i])]), fs |-> f] :
              e \in Enumerations(Children(f, path))}

\* the results list_dir may return (one per enumeration order)
list_dir(f, path) ==
    IF ~Exists(f, path) THEN {[res |-> OkNames(<<>>), fs |-> f]}
    ELSE IF ReadDirError(f, path) # "" THEN {[res |-> Err(ReadDirError(f, path)), fs |-> f]}
    ELSE {[res |-> OkNames([i \in 1..Len(e) |-> FileName(e[i])]), fs |-> f] :
              e \in Enumerations(Children(f, path))}

\* variant: create_dir in place of create_dir_all
ensure_dir_single(f, path) ==
    LET r == Mkdir(f, path) IN [res |-> FromErr(r.err), fs |-> r.fs]

ensure_dir(f, path) ==
    LET r == CreateDirAll(f, path) IN [res |-> FromErr(r.err), fs |-> r.fs]

file_exists(f, path) == [res |-> OkFlag(Exists(f, path)), fs |-> f]

\* ------------------------------------------------------------- state
VARIABLES
    fs,       \* the filesystem: Paths -> entry
    before,   \* the filesystem as the command(s) dispatched last found it
    last,     \* sequential model: the last command dispatched and its result
    nops,     \* sequential model: commands dispatched so far
    call,     \* concurrent model: the command each thread runs
    pc,       \* concurrent model: each thread's position in its command
    ret,      \* concurrent model: each thread's result
    hnd       \* concurrent model: each thread's open file

vars == <<fs, before, last, nops, call, pc, ret, hnd>>
seqvars == <<last, nops>>
thrvars == <<call, pc, ret, hnd>>

NoCall == [op |-> "none", path |-> <<>>, content |-> <<>>, res |-> Ok]
Call(op, path, content, res) == [op |-> op, path |-> path, content |-> content, res |-> res]
NoHandle == [open |-> FALSE, linked |-> FALSE, off |-> 0]

\* a data directory that has been used: a/ holding the file a/b, and the file b
SeedFS ==
    write_file(write_file(EmptyFS, <<"a", "b">>, <<233>>).fs, <<"b">>, <<65>>).fs

InitFS == {EmptyFS, SeedFS}

\* ------------------------------------------------------------- sequential model
\* commands dispatched one after the other, each run to completion
Init ==
    /\ fs \in InitFS
    /\ before = fs
    /\ last = NoCall
    /\ nops = 0
    /\ call = [t \in Threads |-> NoCall]
    /\ pc = [t \in Threads |-> "idle"]
    /\ ret = [t \in Threads |-> Ok]
    /\ hnd = [t \in Threads |-> NoHandle]

\* the bookkeeping of one dispatched command
Dispatch(op, path, content, out) ==
    /\ nops < MaxOps
    /\ fs' = out.fs
    /\ before' = fs
    /\ last' = Call(op, path, content, out.res)
    /\ nops' = nops + 1
    /\ UNCHANGED thrvars

ReadFile == \E p \in Paths : Dispatch("read_file", p, <<>>, read_file(fs, p))

WriteFile == \E p \in Paths, c \in Texts : Dispatch("write_file", p, c, write_file(fs, p, c))

DeleteFile == \E p \in Paths : Dispatch("delete_file", p, <<>>, delete_file(fs, p))

ListDir == \E p \in Paths : \E out \in list_dir(fs, p) : Dispatch("list_dir", p, <<>>, out)

EnsureDir == \E p \in Paths : Dispatch("ensure_dir", p, <<>>, ensure_dir(fs, p))

FileExists == \E p \in Paths : Dispatch("file_exists", p, <<>>, file_exists(fs, p))

Next == ReadFile \/ WriteFile \/ DeleteFile \/ ListDir \/ EnsureDir \/ FileExists

Spec == Init /\ [][Next]_vars

\* ------------------------------------------------------------- concurrent model
\* Two commands on the same path, each on its own worker thread, interleaved
\* at their filesystem calls. delete_file is Path::exists, then remove_file;
\* write_file is create_dir_all, then File::create, then write_all (one or
\* more write calls), then the close of the file.
\* An open file stays writable after it is unlinked; what is written to it
\* then is lost with it (hnd[t].linked tells whether t's file is still the
\* one at the path).

RaceOps == {"write_file", "delete_file"}

InitRace ==
    /\ fs \in InitFS
    /\ before = fs
    /\ last = NoCall
    /\ nops = 0
    /\ \E p \in Paths :
           call \in [Threads -> {Call(op, p, c, Ok) : op \in RaceOps, c \in Texts}]
    /\ \A t \in Threads : call[t].op = "delete_file" => call[t].content = <<>>
    /\ pc = [t \in Threads |-> "start"]
    /\ ret = [t \in Threads |-> Ok]
    /\ hnd = [t \in Threads |-> NoHandle]

Finish(t, res) ==
    /\ pc' = [pc EXCEPT ![t] = "done"]
    /\ ret' = [ret EXCEPT ![t] = res]

Goto(t, label) ==
    /\ pc' = [pc EXCEPT ![t] = label]
    /\ UNCHANGED ret

\* delete_file: if p.exists()
DlCheck(t) ==
    /\ call[t].op = "delete_file" /\ pc[t] = "start"
    /\ IF Exists(fs, call[t].path) THEN Goto(t, "remove") ELSE Finish(t, Ok)
    /\ UNCHANGED <<fs, before, seqvars, call, hnd>>

\* delete_file: fs::remove_file(&p)
DlRemove(t) ==
    /\ call[t].op = "delete_file" /\ pc[t] = "remove"
    /\ LET r == RemoveFile(fs, call[t].path) IN
       /\ fs' = r.fs
       /\ Finish(t, FromErr(r.err))
       /\ hnd' = [u \in Threads |->
                     IF r.err = "" /\ hnd[u].open /\ call[u].path = call[t].path
                     THEN [hnd[u] EXCEPT !.linked = FALSE] ELSE hnd[u]]
    /\ UNCHANGED <<before, seqvars, call>>

\* write_file: fs::create_dir_all(parent)
WfMkdirs(t) ==
    /\ call[t].op = "write_file" /\ pc[t] = "start"
    /\ LET made == MakeParentDirs(fs, call[t].path)
       IN /\ fs' = made.fs
          /\ IF made.err # "" THEN Finish(t, Err(made.err)) ELSE Goto(t, "open")
    /\ UNCHANGED <<before, seqvars, call, hnd>>

\* write_file: fs::write opens the file (File::create)
WfOpen(t) ==
    /\ call[t].op = "write_file" /\ pc[t] = "open"
    /\ LET opened == OpenTruncate(fs, call[t].path) IN
       /\ fs' = opened.fs
       /\ IF opened.err # ""
          THEN Finish(t, Err(opened.err)) /\ UNCHANGED hnd
          ELSE /\ Goto(t, "write")
               /\ hnd' = [u \in Threads |->
                             IF u = t THEN [open |-> TRUE, linked |-> TRUE, off |-> 0]
                             ELSE hnd[u]]
    /\ UNCHANGED <<before, seqvars, call>>

\* write_file: fs::write writes the next n bytes (write_all)
WfWrite(t) ==
    /\ call[t].op = "write_file" /\ pc[t] = "write"
    /\ LET bytes == Utf8Encode(call[t].content) IN
       \E n \in 1..(Len(bytes) - hnd[t].off) :
           /\ fs' = HandleWrite(fs, hnd[t].linked, call[t].path, hnd[t].off,
                                SubSeq(bytes, hnd[t].off + 1, hnd[t].off + n))
           /\ hnd' = [hnd EXCEPT ![t].off = hnd[t].off + n]
    /\ UNCHANGED <<before, seqvars, call, pc, ret>>

\* write_file: everything is written, the file is closed
WfClose(t) ==
    /\ call[t].op = "write_file" /\ pc[t] = "write"
    /\ hnd[t].off = Len(Utf8Encode(call[t].content))
    /\ hnd' = [hnd EXCEPT ![t] = NoHandle]
    /\ Finish(t, Ok)
    /\ UNCHANGED <<fs, before, seqvars, call>>

NextRace ==
    \E t \in Threads :
        DlCheck(t) \/ DlRemove(t) \/ WfMkdirs(t) \/ WfOpen(t) \/ WfWrite(t) \/ WfClose(t)

SpecRace == InitRace /\ [][NextRace]_vars

AllDone == \A t \in Threads : pc[t] = "done"

\* ------------------------------------------------------------- properties
Path == last.path
Written == last.op = "write_file" /\ last.res.ok
Others(p) == Paths \ (Ancestors(p) \cup {p})

\* nothing is at the parent of p, and no file is in the way of creating it
MissingDirs(f, p) ==
    /\ HasParent(p)
    /\ f[Parent(p)].kind = "none"
    /\ \A q \in Ancestors(p) : f[q].kind # "file"

\* no file is at p or in the way of creating it
Creatable(f, p) == \A k \in 0..Len(p) : f[Prefix(p, k)].kind # "file"

\* the names of what directory p holds
ChildNames(f, p) == {n \in Names : Len(p) < MaxDepth /\ f[Append(p, n)].kind # "none"}

\* C1: a write_file(p, c) that returns ok, followed at once by read_file(p),
\* makes read_file return exactly c.
RoundTrip ==
    Written => read_file(fs, Path).res = OkText(last.content)

RoundTripWitness ==
    /\ Written
    /\ last.content = <<233>>
    /\ before[Path].kind = "none"

WriteReplaces ==
    Written =>
        /\ fs[Path] = FileEntry(Utf8Encode(last.content))
        /\ \A c2 \in Texts :
               LET again == write_file(fs, Path, c2) IN
               /\ again.res = Ok
               /\ again.fs[Path] = FileEntry(Utf8Encode(c2))
               /\ read_file(again.fs, Path).res = OkText(c2)
               /\ \A q \in Paths \ {Path} : again.fs[q] = fs[q]

WriteReplacesWitness ==
    /\ Written
    /\ before[Path].kind = "file"
    /\ Len(before[Path].data) > Len(Utf8Encode(last.content))

\* C4: delete_file(p) where nothing exists returns ok and changes nothing;
\* and after a write_file(p, _) that returned ok, delete_file(p) returns ok
\* and file_exists(p) is false after it.
DeleteIdempotent ==
    /\ (last.op = "delete_file" /\ ~Exists(before, Path)) =>
           (last.res = Ok /\ fs = before)
    /\ (last.op = "delete_file" /\ before[Path].kind = "file") =>
           (last.res = Ok /\ file_exists(fs, Path).res = OkFlag(FALSE))
    /\ Written =>
           LET gone == delete_file(fs, Path) IN
           /\ gone.res = Ok
           /\ file_exists(gone.fs, Path).res = OkFlag(FALSE)
           /\ delete_file(gone.fs, Path) = [res |-> Ok, fs |-> gone.fs]

DeleteIdempotentWitness ==
    /\ last.op = "delete_file"
    /\ ~Exists(before, Path)
    /\ HasParent(Path) /\ before[Parent(Path)].kind = "none"
    /\ last.res.ok

\* C5: list_dir(p) where nothing exists returns the empty sequence as a
\* success, and creates nothing.
ListMissingIsEmpty ==
    (last.op = "list_dir" /\ ~Exists(before, Path)) =>
        (last.res = OkNames(<<>>) /\ fs = before)

ListMissingIsEmptyWitness ==
    /\ last.op = "list_dir"
    /\ ~Exists(before, Path)
    /\ last.res.ok

\* C6: list_dir(d) on a directory returns the names of exactly the direct
\* children of d, each once; after ensure_dir on a fresh d it returns nothing,
\* and after write_file(d/f, _) into an empty or fresh d exactly "f".
ListIsChildNames ==
    /\ (last.op = "list_dir" /\ before[Path].kind = "dir") =>
           /\ last.res.ok
           /\ {last.res.names[i] : i \in 1..Len(last.res.names)} = ChildNames(before, Path)
           /\ Len(last.res.names) = Cardinality(ChildNames(before, Path))
           /\ fs = before
    /\ (last.op = "ensure_dir" /\ last.res.ok /\ before[Path].kind = "none") =>
           list_dir(fs, Path) = {[res |-> OkNames(<<>>), fs |-> fs]}
    /\ (Written /\ ChildNames(before, Parent(Path)) = {}) =>
           list_dir(fs, Parent(Path)) = {[res |-> OkNames(<<FileName(Path)>>), fs |-> fs]}

ListIsChildNamesWitness ==
    /\ last.op = "list_dir"
    /\ before[Path].kind = "dir"
    /\ Len(last.res.names) = 2
    /\ \E q \in Paths : IsUnder(q, Path) /\ Len(q) = Len(Path) + 2 /\ before[q].kind # "none"
    /\ \E q \in Children(before, Path) : before[q].kind = "file"

\* C7: ensure_dir(p) returns ok unless a file is at p or in the way; after
\* it p and its ancestors are directories and nothing else has changed (what
\* p held, it holds); and a repeated ensure_dir(p) returns ok and changes
\* nothing.
EnsureDirIdempotent ==
    /\ (last.op = "ensure_dir" /\ Creatable(before, Path)) => last.res = Ok
    /\ (last.op = "ensure_dir" /\ last.res.ok) =>
           /\ fs[Path] = DirEntry
           /\ \A q \in Ancestors(Path) : fs[q] = DirEntry
           /\ \A q \in Others(Path) : fs[q] = before[q]
           /\ ensure_dir(fs, Path) = [res |-> Ok, fs |-> fs]

EnsureDirIdempotentWitness ==
    /\ last.op = "ensure_dir"
    /\ last.res.ok
    /\ HasParent(Path)
    /\ before[Path].kind = "dir"
    /\ ChildNames(before, Path) # {}

\* C8: delete_file(p) on a directory returns an error and changes nothing;
\* file_exists(p) is still true.
DeleteDirFails ==
    (last.op = "delete_file" /\ before[Path].kind = "dir") =>
        /\ ~last.res.ok
        /\ fs = before
        /\ file_exists(fs, Path).res = OkFlag(TRUE)

DeleteDirFailsWitness ==
    /\ last.op = "delete_file"
    /\ before[Path].kind = "dir"
    /\ HasParent(Path)
    /\ ChildNames(before, Path) # {}
    /\ ~last.res.ok

\* C9: when two delete_file(p) calls run concurrently on a path holding a
\* regular file, both return ok and p is absent afterwards.
ConcurrentDeletesOk ==
    (/\ \A t \in Threads : call[t].op = "delete_file"
     /\ before[call[1].path].kind = "file"
     /\ AllDone) =>
        /\ \A t \in Threads : ret[t] = Ok
        /\ fs[call[1].path] = NoEntry

\* C10: when one write_file(p, c) and one delete_file(p) run concurrently, p
\* being absent or a regular file beforehand and no file in the way of its
\* parent directory, each returns ok, and once both have returned p is
\* absent or a file holding exactly c.
WriteDeleteRace ==
    \A w, d \in Threads :
        (/\ call[w].op = "write_file" /\ call[d].op = "delete_file"
         /\ HasParent(call[w].path)
         /\ before[call[w].path].kind # "dir"
         /\ \A q \in Ancestors(call[w].path) : before[q].kind # "file") =>
            /\ \A t \in Threads : pc[t] = "done" => ret[t] = Ok
            /\ AllDone =>
                   \/ fs[call[w].path] = NoEntry
                   \/ fs[call[w].path] = FileEntry(Utf8Encode(call[w].content))

WriteDeleteRaceWitness ==
    \E w, d \in Threads :
        /\ call[w].op = "write_file" /\ call[d].op = "delete_file"
        /\ AllDone
        /\ before[call[w].path].kind = "file"
        /\ before[call[w].path].data # Utf8Encode(call[w].content)
        /\ call[w].content = <<233>>
        /\ fs[call[w].path] = FileEntry(Utf8Encode(call[w].content))

\* ------------------------------------------------------------- sanity
TypeOK == WellFormed(fs) /\ nops \in 0..MaxOps
====
